---- MODULE Spec2Model ----
(***************************************************************************)
(* Model of FlashSprintConcole.c: a console flashcard application with a   *)
(* card list, a tag hash map, a review queue driven by a rotation          *)
(* scheduler, and a text save/load format.                                 *)
(*                                                                         *)
(* C strings are sequences of one-character strings.  A Card* is a handle  *)
(* (a positive integer); NULL is 0.  An optional char* is a sequence of    *)
(* length 0 (NULL) or 1 (the string).  int is 32 bits wide and wraps.      *)
(***************************************************************************)
EXTENDS Integers, Sequences, FiniteSets, TLC

(* ---------------------------- bounds ----------------------------------- *)
MaxCards == 3
MaxAdds == 1
MaxLoads == 1
MaxSaves == 1
MaxInterval == 2
MaxVerdicts == 2

(* ------------------------ program constants ---------------------------- *)
NT_SIZE == 256
INT_MAX == 2147483647
INT_MIN == -INT_MAX - 1
NULL == 0

(* ------------------------- fixed-width int ----------------------------- *)
\* x + 1 in a 32-bit int
Inc32(x) == IF x = INT_MAX THEN INT_MIN ELSE x + 1

\* x * 2 in a 32-bit int
Mul2_32(x) ==
  LET half == INT_MAX \div 2 + 1 IN
  IF x >= half THEN (x - half) * 2 + INT_MIN
  ELSE IF x < -half THEN ((x + half) * 2 + INT_MAX) + 1
  ELSE x * 2

(* ----------------------------- ctype ----------------------------------- *)
UpperChars == <<"A","B","C","D","E","F","G","H","I","J","K","L","M",
                "N","O","P","Q","R","S","T","U","V","W","X","Y","Z">>
LowerChars == <<"a","b","c","d","e","f","g","h","i","j","k","l","m",
                "n","o","p","q","r","s","t","u","v","w","x","y","z">>
DigitChars == <<"0","1","2","3","4","5","6","7","8","9">>

isspace(ch) == ch \in {" ", "\t", "\n", "\r", "\f"}

tolower(ch) ==
  IF \E i \in 1..26 : UpperChars[i] = ch
  THEN LowerChars[CHOOSE i \in 1..26 : UpperChars[i] = ch]
  ELSE ch

isdigit(ch) == \E i \in 1..10 : DigitChars[i] = ch

DigitVal(ch) == (CHOOSE i \in 1..10 : DigitChars[i] = ch) - 1

(* ------------------------- string helpers ------------------------------ *)
RECURSIVE trim_newline(_)
trim_newline(s) ==
  IF Len(s) > 0 /\ s[Len(s)] \in {"\n", "\r"}
  THEN trim_newline(SubSeq(s, 1, Len(s) - 1))
  ELSE s

\* the first index in lo..hi that holds no white space, hi + 1 if none
\* (the scan of "while (*p && isspace(*p)) p++", by halving)
RECURSIVE FirstNonSpace(_, _, _)
FirstNonSpace(s, lo, hi) ==
  IF lo > hi THEN lo
  ELSE IF lo = hi THEN (IF isspace(s[lo]) THEN hi + 1 ELSE lo)
  ELSE LET mid == (lo + hi) \div 2
           l == FirstNonSpace(s, lo, mid)
       IN IF l <= mid THEN l ELSE FirstNonSpace(s, mid + 1, hi)

\* the last index in lo..hi that holds no white space, lo - 1 if none
RECURSIVE LastNonSpace(_, _, _)
LastNonSpace(s, lo, hi) ==
  IF lo > hi THEN hi
  ELSE IF lo = hi THEN (IF isspace(s[lo]) THEN lo - 1 ELSE lo)
  ELSE LET mid == (lo + hi) \div 2
           r == LastNonSpace(s, mid + 1, hi)
       IN IF r > mid THEN r ELSE LastNonSpace(s, lo, mid)

str_ltrim(s) == SubSeq(s, FirstNonSpace(s, 1, Len(s)), Len(s))

str_rtrim(s) == SubSeq(s, 1, LastNonSpace(s, 1, Len(s)))

trim_whitespace(s) == str_rtrim(str_ltrim(s))

normalize_tag(s) ==
  LET t == trim_whitespace(s) IN [i \in 1..Len(t) |-> tolower(t[i])]

\* strncmp(line, prefix, strlen(prefix)) == 0
HasPrefix(line, prefix) ==
  Len(line) >= Len(prefix) /\ SubSeq(line, 1, Len(prefix)) = prefix

\* line + n
Skip(line, n) == SubSeq(line, n + 1, Len(line))

\* the tokens strsep(&p, ",") returns, in order (empty tokens included)
RECURSIVE strsep_all(_, _)
strsep_all(s, cur) ==
  IF s = << >> THEN <<cur>>
  ELSE IF s[1] = "," THEN <<cur>> \o strsep_all(Tail(s), << >>)
  ELSE strsep_all(Tail(s), Append(cur, s[1]))

RECURSIVE KeepTags(_)
KeepTags(toks) ==
  IF toks = << >> THEN << >>
  ELSE LET tok == trim_whitespace(toks[1]) IN
       IF Len(tok) = 0 THEN KeepTags(Tail(toks))
       ELSE <<normalize_tag(tok)>> \o KeepTags(Tail(toks))

parse_tags(line) == KeepTags(strsep_all(line, << >>))

(* --------------------------- printf / atoi ----------------------------- *)
RECURSIVE NatDigits(_)
NatDigits(n) ==
  IF n < 10 THEN <<DigitChars[n + 1]>>
  ELSE Append(NatDigits(n \div 10), DigitChars[(n % 10) + 1])

\* printf("%d", n)
FormatInt(n) ==
  IF n >= 0 THEN NatDigits(n)
  ELSE LET m == -(n + 1)
           last == ((m % 10) + 1) % 10
           rest == (m \div 10) + (IF m % 10 = 9 THEN 1 ELSE 0)
       IN <<"-">> \o (IF rest = 0 THEN << >> ELSE NatDigits(rest))
                  \o <<DigitChars[last + 1]>>

\* digits accumulated with the sign applied, so that INT_MIN parses
RECURSIVE AtoiDigits(_, _, _)
AtoiDigits(s, acc, sign) ==
  IF Len(s) > 0 /\ isdigit(s[1])
  THEN AtoiDigits(Tail(s), acc * 10 + sign * DigitVal(s[1]), sign)
  ELSE acc

\* atoi(s) for strings whose value fits an int
atoi(s) ==
  LET t == str_ltrim(s) IN
  IF Len(t) > 0 /\ t[1] = "-" THEN AtoiDigits(Tail(t), 0, -1)
  ELSE IF Len(t) > 0 /\ t[1] = "+" THEN AtoiDigits(Tail(t), 0, 1)
  ELSE AtoiDigits(t, 0, 1)


(* ----------------------------- queue ----------------------------------- *)
\* a Queue is [nodes |-> sequence of Card*, size |-> int]
queue_create == [nodes |-> << >>, size |-> 0]

\* an enqueue that links the node in at the head
queue_enqueue_front(q, p) == [nodes |-> <<p>> \o q.nodes, size |-> q.size + 1]

queue_enqueue(q, p) == [nodes |-> Append(q.nodes, p), size |-> q.size + 1]

\* the Card* queue_dequeue returns
queue_front(q) == IF q.nodes = << >> THEN NULL ELSE Head(q.nodes)

\* the queue queue_dequeue leaves
queue_dequeue(q) ==
  IF q.nodes = << >> THEN q
  ELSE [nodes |-> Tail(q.nodes), size |-> q.size - 1]

queue_free_nodes(q) == [nodes |-> << >>, size |-> 0]

(* ------------------------------ cards ---------------------------------- *)
\* the Card a handle points to; cards is the cards_head list, head first
Deref(cards, p) == cards[CHOOSE i \in 1..Len(cards) : cards[i].ptr = p]

Ptrs(cards) == {cards[i].ptr : i \in 1..Len(cards)}

\* an assignment that hits the id field instead of due_in
SetSchedule_id(cards, p, iv, due) ==
  [i \in 1..Len(cards) |->
     IF cards[i].ptr = p
     THEN [cards[i] EXCEPT !.interval = iv, !.id = due]
     ELSE cards[i]]

\* malloc(sizeof(Card)): a block that is not in use
MallocCard(cards) ==
  CHOOSE p \in 1..(Len(cards) + 1) :
    p \notin Ptrs(cards) /\ \A r \in 1..(p - 1) : r \in Ptrs(cards)

SetSchedule(cards, p, iv, due) ==
  [i \in 1..Len(cards) |->
     IF cards[i].ptr = p
     THEN [cards[i] EXCEPT !.interval = iv, !.due_in = due]
     ELSE cards[i]]

RECURSIVE RemoveFirst(_, _)
RemoveFirst(seq, x) ==
  IF seq = << >> THEN << >>
  ELSE IF Head(seq) = x THEN Tail(seq)
  ELSE <<Head(seq)>> \o RemoveFirst(Tail(seq), x)

RECURSIVE RemoveAll(_, _)
RemoveAll(seq, x) ==
  IF seq = << >> THEN << >>
  ELSE IF Head(seq) = x THEN RemoveAll(Tail(seq), x)
  ELSE <<Head(seq)>> \o RemoveAll(Tail(seq), x)

(* ----------------------------- tag map --------------------------------- *)
\* tag_map is a function from the tags that have an entry to the entry's
\* card list (most recently added first)
EmptyTagMap == [t \in {} |-> << >>]

\* the entry's card list, or NULL
tag_find(tm, tag) == IF tag \in DOMAIN tm THEN <<tm[tag]>> ELSE << >>

tag_add_card(tm, tag, p) ==
  [t \in DOMAIN tm \cup {tag} |->
     IF t = tag
     THEN <<p>> \o (IF tag \in DOMAIN tm THEN tm[tag] ELSE << >>)
     ELSE tm[t]]

tag_remove_card_from_tag_entry(list, p) == RemoveFirst(list, p)

\* one iteration of the loop of tag_remove_card
TagRemoveOne(tm, tag, p) ==
  IF tag_find(tm, tag) = << >> THEN tm
  ELSE LET list == tag_remove_card_from_tag_entry(tm[tag], p) IN
       IF list = << >>
       THEN [t \in DOMAIN tm \ {tag} |-> tm[t]]
       ELSE [tm EXCEPT ![tag] = list]

RECURSIVE TagRemoveFrom(_, _, _, _)
TagRemoveFrom(tm, tags, i, p) ==
  IF i > Len(tags) THEN tm
  ELSE TagRemoveFrom(TagRemoveOne(tm, tags[i], p), tags, i + 1, p)

tag_remove_card(tm, card) == TagRemoveFrom(tm, card.tags, 1, card.ptr)

RECURSIVE TagAddFrom(_, _, _, _)
TagAddFrom(tm, tags, i, p) ==
  IF i > Len(tags) THEN tm
  ELSE TagAddFrom(tag_add_card(tm, tags[i], p), tags, i + 1, p)

(* ------------------------- create / delete ----------------------------- *)
\* a store is [cards, tag_map, next_card_id]; create_card returns the store
\* with the new card at the head of the list
create_card(st, q, a, tags) ==
  LET p == MallocCard(st.cards)
      card == [ptr |-> p, id |-> st.next_card_id, question |-> q,
               answer |-> a, tags |-> tags, interval |-> 1, due_in |-> 0]
  IN [cards |-> <<card>> \o st.cards,
      tag_map |-> TagAddFrom(st.tag_map, tags, 1, p),
      next_card_id |-> Inc32(st.next_card_id)]

delete_card(st, p) ==
  LET card == Deref(st.cards, p) IN
  [cards |-> SelectSeq(st.cards, LAMBDA x : x.ptr # p),
   tag_map |-> tag_remove_card(st.tag_map, card),
   next_card_id |-> st.next_card_id]

\* a lookup that falls back to the head of the list
find_card_by_id_head(cards, id) ==
  IF \E i \in 1..Len(cards) : cards[i].id = id
  THEN cards[CHOOSE i \in 1..Len(cards) : cards[i].id = id].ptr
  ELSE IF cards = << >> THEN NULL ELSE cards[1].ptr

\* the first card of the list with the id, or NULL
find_card_by_id(cards, id) ==
  IF \E i \in 1..Len(cards) : cards[i].id = id
  THEN cards[CHOOSE i \in 1..Len(cards) :
               cards[i].id = id /\ \A j \in 1..(i - 1) : cards[j].id # id].ptr
  ELSE NULL

\* a rebuild that skips nothing: the deleted card stays queued
RebuildQueue_keep(nodes, p) == nodes

\* a rebuild that links each kept node in at the head: the order is reversed
RebuildQueue_reversed(nodes, p) ==
  LET kept == SelectSeq(nodes, LAMBDA x : x # p) IN
  [i \in 1..Len(kept) |-> kept[Len(kept) + 1 - i]]

\* the rebuilt node list of remove_card_interactive
RebuildQueue(nodes, p) == RemoveAll(nodes, p)

(* ------------------------------ search --------------------------------- *)
\* strncpy(nt, tag, sizeof(nt)-1); nt[sizeof(nt)-1] = 0
strncpy_nt(tag) ==
  IF Len(tag) > NT_SIZE - 1 THEN SubSeq(tag, 1, NT_SIZE - 1) ELSE tag

\* the cards search_by_tag prints for the query, in print order
search_by_tag(tm, tag) ==
  LET nt == normalize_tag(strncpy_nt(tag))
      e == tag_find(tm, nt)
  IN IF e = << >> THEN << >> ELSE e[1]

(* --------------------------- sample data ------------------------------- *)
SampleQ1 ==
  <<"W","h","a","t"," ","i","s"," ","F","I","F","O"," ","i",
    "n"," ","q","u","e","u","e","s","?">>
SampleA1 ==
  <<"F","i","r","s","t"," ","I","n"," ","F","i","r","s","t",
    " ","O","u","t">>
SampleQ2 ==
  <<"H","o","w"," ","t","o"," ","h","a","n","d","l","e"," ",
    "c","o","l","l","i","s","i","o","n","s"," ","i","n"," ",
    "h","a","s","h"," ","m","a","p","?">>
SampleA2 ==
  <<"U","s","e"," ","c","h","a","i","n","i","n","g"," ","(",
    "l","i","n","k","e","d"," ","l","i","s","t","s",")"," ",
    "o","r"," ","o","p","e","n"," ","a","d","d","r","e","s",
    "s","i","n","g">>
SampleQ3 ==
  <<"W","h","a","t"," ","i","s"," ","e","n","q","u","e","u",
    "e"," ","o","p","e","r","a","t","i","o","n","?">>
SampleA3 ==
  <<"I","n","s","e","r","t"," ","e","l","e","m","e","n","t",
    " ","a","t"," ","t","h","e"," ","t","a","i","l"," ","o",
    "f"," ","q","u","e","u","e">>
SampleT1 == << <<"q","u","e","u","e">>, <<"d","s">> >>
SampleT2 == << <<"h","a","s","h","m","a","p">>, <<"d","s">> >>
SampleT3 == << <<"q","u","e","u","e">>, <<"s","r","s">> >>

EmptyStore == [cards |-> << >>, tag_map |-> EmptyTagMap, next_card_id |-> 1]

RECURSIVE EnqueueAll(_, _, _)
EnqueueAll(q, cards, i) ==
  IF i > Len(cards) THEN q
  ELSE EnqueueAll(queue_enqueue(q, cards[i].ptr), cards, i + 1)

\* the store and the queue load_sample_cards leaves
SampleStore ==
  create_card(create_card(create_card(EmptyStore,
      SampleQ1, SampleA1, SampleT1),
      SampleQ2, SampleA2, SampleT2),
      SampleQ3, SampleA3, SampleT3)

SampleQueue == EnqueueAll(queue_create, SampleStore.cards, 1)


(* --------------------------- persistence ------------------------------- *)
\* A file is a sequence of lines, each as fgets returns it (the line
\* terminator included when the file has one).
NL == <<"\n">>

RECURSIVE JoinTags(_, _)
JoinTags(tags, i) ==
  IF i > Len(tags) THEN << >>
  ELSE (IF i > 1 THEN <<",">> ELSE << >>) \o tags[i] \o JoinTags(tags, i + 1)

\* the lines save_cards_to_file prints for one card
CardBlock(card) ==
  << <<"I","D","=">> \o FormatInt(card.id) \o NL,
     <<"Q","=">> \o card.question \o NL,
     <<"A","=">> \o card.answer \o NL,
     <<"T","=">> \o JoinTags(card.tags, 1) \o NL,
     <<"I","=">> \o FormatInt(card.interval) \o NL,
     <<"D","=">> \o FormatInt(card.due_in) \o NL,
     <<"-","-","-">> \o NL >>

RECURSIVE SaveFrom(_, _)
SaveFrom(cards, i) ==
  IF i > Len(cards) THEN << >>
  ELSE CardBlock(cards[i]) \o SaveFrom(cards, i + 1)

\* the file save_cards_to_file writes
save_cards_to_file(cards) == SaveFrom(cards, 1)

\* c->interval = interval>0?interval:1
LoadInterval(interval) == IF interval > 0 THEN interval ELSE 1

\* c->due_in = due>=0?due:0
LoadDue(due) == IF due >= 0 THEN due ELSE 0

\* if (id >= next_card_id) next_card_id = id + 1
AdvanceNextId(id, next) == IF id >= next THEN Inc32(id) ELSE next

\* a clear that frees the cards but leaves the tag map in place
clear_all_data_keeptags(st) ==
  [cards |-> << >>, tag_map |-> st.tag_map, next_card_id |-> st.next_card_id]

\* tag entries, cards and queue nodes freed; next_card_id is not reset
clear_all_data(st) ==
  [cards |-> << >>, tag_map |-> EmptyTagMap, next_card_id |-> st.next_card_id]

\* The loader's locals and the structures it fills.  qtext, atext and
\* tagsline are optional strings; recorded collects the ID= values of the
\* records that were committed.
LoaderStart(st, q) ==
  [st |-> clear_all_data(st), q |-> queue_free_nodes(q),
   id |-> 0, interval |-> 1, due |-> 0,
   qtext |-> << >>, atext |-> << >>, tagsline |-> << >>,
   recorded |-> {}]

\* the body of "if (qtext && atext) { ... }"
CommitRecord(ls) ==
  IF ls.qtext # << >> /\ ls.atext # << >>
  THEN LET tks == parse_tags(IF ls.tagsline # << >> THEN ls.tagsline[1]
                             ELSE << >>)
           st1 == create_card(ls.st, ls.qtext[1], ls.atext[1], tks)
           p == st1.cards[1].ptr
       IN [ls EXCEPT
             !.st = [cards |-> SetSchedule(st1.cards, p,
                                  LoadInterval(ls.interval), LoadDue(ls.due)),
                     tag_map |-> st1.tag_map,
                     next_card_id |-> AdvanceNextId(ls.id, st1.next_card_id)],
             !.q = queue_enqueue(ls.q, p),
             !.recorded = ls.recorded \cup {ls.id}]
  ELSE ls

\* a separator that leaves the record's fields in place
ResetRecord_keep(ls) == ls

\* free and clear the texts; id = 0; interval = 1; due = 0
ResetRecord(ls) ==
  [ls EXCEPT !.qtext = << >>, !.atext = << >>, !.tagsline = << >>,
             !.id = 0, !.interval = 1, !.due = 0]

\* one iteration of the fgets loop
LoadLine(ls, raw) ==
  LET line == trim_newline(raw) IN
  IF HasPrefix(line, <<"I","D","=">>) THEN [ls EXCEPT !.id = atoi(Skip(line, 3))]
  ELSE IF HasPrefix(line, <<"Q","=">>) THEN [ls EXCEPT !.qtext = <<Skip(line, 2)>>]
  ELSE IF HasPrefix(line, <<"A","=">>) THEN [ls EXCEPT !.atext = <<Skip(line, 2)>>]
  ELSE IF HasPrefix(line, <<"T","=">>) THEN [ls EXCEPT !.tagsline = <<Skip(line, 2)>>]
  ELSE IF HasPrefix(line, <<"I","=">>) THEN [ls EXCEPT !.interval = atoi(Skip(line, 2))]
  ELSE IF HasPrefix(line, <<"D","=">>) THEN [ls EXCEPT !.due = atoi(Skip(line, 2))]
  ELSE IF line = <<"-","-","-">> THEN ResetRecord(CommitRecord(ls))
  ELSE ls

RECURSIVE LoadLines(_, _, _)
LoadLines(ls, file, i) ==
  IF i > Len(file) THEN ls
  ELSE LoadLines(LoadLine(ls, file[i]), file, i + 1)

\* load_cards_from_file once the file is open: the loader state at fclose
load_cards_from_file(st, q, file) ==
  CommitRecord(LoadLines(LoaderStart(st, q), file, 1))


(* ------------------------------ inputs --------------------------------- *)
\* fgets returned NULL
EOF == << >>

\* a file with an id at INT_MAX, a record without an answer, and a last
\* record with CRLF line ends, no ID=, no T= and no closing separator
FileA ==
  <<
     <<"I","D","=","2","1","4","7","4","8","3","6","4","7","\n">>,
     <<"Q","=","b","i","g","\n">>,
     <<"A","=","x","\n">>,
     <<"T","=","a",","," ","A","\n">>,
     <<"I","=","1","0","7","3","7","4","1","8","2","4","\n">>,
     <<"D","=","0","\n">>,
     <<"-","-","-","\n">>,
     <<"I","D","=","7","\n">>,
     <<"Q","=","n","o","a","n","s","w","e","r","\n">>,
     <<"T","=","b","\n">>,
     <<"I","=","5","\n">>,
     <<"D","=","3","\n">>,
     <<"-","-","-","\n">>,
     <<"Q","=","z","\r","\n">>,
     <<"A","=","\r","\n">>,
     <<"I","=","0","\r","\n">>,
     <<"D","=","-","1">>
  >>

\* a file of two valid records, the second with a negative interval, and
\* between them a record without a question
FileB ==
  <<
     <<"I","D","=","1","0","\n">>,
     <<"Q","=","q","1","\n">>,
     <<"A","=","a","1","\n">>,
     <<"T","=","x","\n">>,
     <<"I","=","2","\n">>,
     <<"D","=","2","\n">>,
     <<"-","-","-","\n">>,
     <<"I","D","=","5","0","\n">>,
     <<"A","=","o","r","p","h","a","n","\n">>,
     <<"T","=","y","\n">>,
     <<"I","=","4","\n">>,
     <<"D","=","2","\n">>,
     <<"-","-","-","\n">>,
     <<"I","D","=","3","\n">>,
     <<"Q","=","q","2","\n">>,
     <<"A","=","a","2","\n">>,
     <<"T","=","\n">>,
     <<"I","=","-","3","\n">>,
     <<"D","=","1","\n">>,
     <<"-","-","-","\n">>
  >>

\* a file of a single record that is not due for two rotations
FileC ==
  <<
     <<"Q","=","o","n","e","\n">>,
     <<"A","=","1","\n">>,
     <<"I","=","1","\n">>,
     <<"D","=","2","\n">>,
     <<"-","-","-","\n">>
  >>

InitialDisk ==
  [n \in {"a.txt", "b.txt", "c.txt"} |->
     IF n = "a.txt" THEN FileA ELSE IF n = "b.txt" THEN FileB ELSE FileC]
SaveNames == {"out.txt", "nodir/out.txt"}
\* fopen(name, "w") succeeds
Writable(name) == name = "out.txt"
LoadNames == {"a.txt", "b.txt", "c.txt", "out.txt"}

AddQuestions == {<<"\n">>, <<" ","\n">>, <<"Q","?","\n">>}
AddAnswers == {<<"A","\n">>}
AddTagLines == {<<"T","a","g",","," ","t","a","g"," ",",","b","\n">>, <<" ",",","\n">>}
\* a query longer than the search buffer: 254 spaces, then ds
LongQuery == [i \in 1..257 |-> IF i <= 254 THEN " " ELSE IF i = 255 THEN "d" ELSE IF i = 256 THEN "s" ELSE "\n"]
Queries == {<<" ","D","S"," ","\n">>, <<"t","a","g","\n">>, LongQuery}
QuestionInputs == {<<"\n">>, <<"q","\n">>}
GradeInputs == {<<"y","\n">>, <<"Y","e","s","\n">>, <<"n","\n">>, <<"\n">>, <<"q","\n">>}

(* ------------------------------- state --------------------------------- *)
VARIABLES
  cards,          \* the cards_head list, head first
  tag_map,        \* tag -> card list of its entry
  next_card_id,
  queue,          \* the review queue: [nodes, size]
  pc,             \* "menu", "scan", "question", "grade", "exited"
  c,              \* practice_loop: the card being presented, or NULL
  scanned,        \* practice_loop: scanned
  initial_size,   \* practice_loop: initial_size
  eof,            \* the end-of-file indicator of stdin
  disk,           \* file name -> contents, for the files that exist
  out,            \* what the latest step printed: [msg, id, list, text]
  inp,            \* the line the latest step read at a practice prompt
  count,          \* operations performed so far (bounds the exploration)
  hist,           \* history: what earlier states looked like
  pushes          \* history: per Card*, the due_in it was last pushed to the
                  \* back of the queue with, and its pops since then

vars == <<cards, tag_map, next_card_id, queue, pc, c, scanned, initial_size,
          eof, disk, out, inp, count, hist, pushes>>

store == [cards |-> cards, tag_map |-> tag_map, next_card_id |-> next_card_id]

Msg(m, id, list) == [msg |-> m, id |-> id, list |-> list, text |-> ""]

\* a message that names a file
MsgFile(m, name) == [msg |-> m, id |-> 0, list |-> << >>, text |-> name]

\* the step printed nothing
Quiet == Msg("", 0, << >>)

Max(a, b) == IF a >= b THEN a ELSE b

RECURSIVE SetMax(_)
SetMax(S) ==
  IF S = {} THEN INT_MIN
  ELSE LET x == CHOOSE x \in S : TRUE IN Max(x, SetMax(S \ {x}))

\* the queue as a history records it: each node's card and its due_in
Snapshot(q, cs) ==
  [i \in 1..Len(q.nodes) |->
     [ptr |-> q.nodes[i], due_in |-> Deref(cs, q.nodes[i]).due_in]]

\* a Card* that has not been pushed
NoPush == [d |-> 0, pops |-> 0]

\* every card of the list as pushed with the due_in it has
PushedAll(cs) ==
  [p \in 1..MaxCards |->
     IF p \in Ptrs(cs) THEN [d |-> Deref(cs, p).due_in, pops |-> 0]
     ELSE NoPush]

Init ==
  /\ cards = SampleStore.cards
  /\ tag_map = SampleStore.tag_map
  /\ next_card_id = SampleStore.next_card_id
  /\ queue = SampleQueue
  /\ pc = "menu"
  /\ c = NULL
  /\ scanned = 0
  /\ initial_size = 0
  /\ eof = FALSE
  /\ disk = InitialDisk
  /\ out = Msg("Loading sample cards...", 0, << >>)
  /\ inp = EOF
  /\ count = [adds |-> 0, loads |-> 0, saves |-> 0, verdicts |-> 0]
  /\ hist = [max_id |-> 3, saved |-> << >>,
             old |-> [ptr |-> NULL, interval |-> 0, due_in |-> 0],
             scan0 |-> << >>, pass0 |-> << >>, decs |-> 0, passes |-> 0,
             loaded |-> {}]
  /\ pushes = PushedAll(SampleStore.cards)

AtMenu == pc = "menu" /\ ~eof

(* ------------------------------ add card ------------------------------- *)
\* add_card_interactive
AddCard ==
  /\ AtMenu
  /\ count.adds < MaxAdds
  /\ Len(cards) < MaxCards
  /\ \E qline \in AddQuestions \cup {EOF}, aline \in AddAnswers \cup {EOF},
        tline \in AddTagLines \cup {EOF} :
       IF qline = EOF
       THEN /\ eof' = TRUE
            /\ out' = Quiet
            /\ UNCHANGED <<cards, tag_map, next_card_id, queue, count, hist>>
       ELSE IF Len(trim_newline(qline)) = 0
       THEN /\ out' = Msg("Empty question - cancelled.", 0, << >>)
            /\ UNCHANGED <<cards, tag_map, next_card_id, queue, eof, count, hist>>
       ELSE IF aline = EOF \/ tline = EOF
       THEN /\ eof' = TRUE
            /\ out' = Quiet
            /\ UNCHANGED <<cards, tag_map, next_card_id, queue, count, hist>>
       ELSE LET tks == parse_tags(trim_newline(tline))
                st1 == create_card(store, trim_newline(qline),
                                   trim_newline(aline), tks)
                new == st1.cards[1]
            IN /\ cards' = SetSchedule(st1.cards, new.ptr, new.interval, 0)
               /\ tag_map' = st1.tag_map
               /\ next_card_id' = st1.next_card_id
               /\ queue' = queue_enqueue(queue, new.ptr)
               /\ out' = Msg("Added card ID", new.id, << >>)
               /\ count' = [count EXCEPT !.adds = @ + 1]
               /\ hist' = [hist EXCEPT !.max_id = Max(@, new.id),
                                        !.loaded = @ \ {new.ptr}]
               /\ UNCHANGED eof
  /\ pushes' = IF out'.msg = "Added card ID"
               THEN [pushes EXCEPT ![cards'[1].ptr] =
                       [d |-> cards'[1].due_in, pops |-> 0]]
               ELSE pushes
  /\ inp' = EOF
  /\ UNCHANGED <<pc, c, scanned, initial_size, disk>>

(* ----------------------------- delete card ----------------------------- *)
DeleteInputs ==
  {FormatInt(cards[i].id) \o NL : i \in 1..Len(cards)}
    \cup {<<"9","9","\n">>, <<"x","\n">>, EOF}

\* remove_card_interactive
DeleteCard ==
  /\ AtMenu
  /\ \E buf \in DeleteInputs :
       IF buf = EOF
       THEN /\ eof' = TRUE
            /\ out' = Quiet
            /\ UNCHANGED <<cards, tag_map, next_card_id, queue>>
       ELSE LET id == atoi(buf)
                p == find_card_by_id(cards, id)
            IN IF p = NULL
               THEN /\ out' = Msg("No card with ID", id, << >>)
                    /\ UNCHANGED <<cards, tag_map, next_card_id, queue, eof>>
               ELSE LET nodes == RebuildQueue(queue.nodes, p)
                        st1 == delete_card(store, p)
                    IN /\ queue' = [nodes |-> nodes, size |-> Len(nodes)]
                       /\ cards' = st1.cards
                       /\ tag_map' = st1.tag_map
                       /\ next_card_id' = st1.next_card_id
                       /\ out' = Msg("Deleted card", id, << >>)
                       /\ UNCHANGED eof
  /\ pushes' = [p \in 1..MaxCards |->
                  IF p \in Ptrs(cards') THEN pushes[p] ELSE NoPush]
  /\ inp' = EOF
  /\ UNCHANGED <<pc, c, scanned, initial_size, disk, count, hist>>

(* --------------------------- search, exit ------------------------------ *)
\* menu option 4
SearchByTag ==
  /\ AtMenu
  /\ \E line \in Queries \cup {EOF} :
       IF line = EOF
       THEN eof' = TRUE /\ out' = Quiet
       ELSE LET found == search_by_tag(tag_map, trim_newline(line)) IN
            /\ out' = IF found = << >>
                      THEN Msg("No cards found for tag", 0, << >>)
                      ELSE Msg("Cards with tag", 0, found)
            /\ UNCHANGED eof
  /\ inp' = EOF
  /\ UNCHANGED <<cards, tag_map, next_card_id, queue, pc, c, scanned,
                 initial_size, disk, count, hist, pushes>>

\* menu option 8, or end of input at the menu: cleanup and return from main
Exit ==
  /\ pc = "menu"
  /\ pc' = "exited"
  /\ cards' = clear_all_data(store).cards
  /\ tag_map' = clear_all_data(store).tag_map
  /\ queue' = queue_free_nodes(queue)
  /\ out' = Msg("Goodbye.", 0, << >>)
  /\ pushes' = PushedAll(<< >>)
  /\ inp' = EOF
  /\ UNCHANGED <<next_card_id, c, scanned, initial_size, eof, disk,
                 count, hist>>

(* ----------------------------- save / load ----------------------------- *)
\* menu option 6
SaveToFile ==
  /\ AtMenu
  /\ count.saves < MaxSaves
  /\ \E name \in SaveNames :
       IF Writable(name)
       THEN /\ disk' = [n \in DOMAIN disk \cup {name} |->
                          IF n = name THEN save_cards_to_file(cards)
                          ELSE disk[n]]
            /\ out' = MsgFile("Saved", name)
            /\ hist' = [hist EXCEPT !.saved = cards]
            /\ count' = [count EXCEPT !.saves = @ + 1]
       ELSE /\ out' = MsgFile("fopen: error", name)
            /\ UNCHANGED <<disk, hist, count>>
  /\ inp' = EOF
  /\ UNCHANGED <<cards, tag_map, next_card_id, queue, pc, c, scanned,
                 initial_size, eof, pushes>>

\* menu option 7
LoadFromFile ==
  /\ AtMenu
  /\ count.loads < MaxLoads
  /\ \E name \in LoadNames :
       IF name \in DOMAIN disk
       THEN LET ls == load_cards_from_file(store, queue, disk[name]) IN
            /\ Len(ls.st.cards) <= MaxCards
            /\ cards' = ls.st.cards
            /\ tag_map' = ls.st.tag_map
            /\ next_card_id' = ls.st.next_card_id
            /\ queue' = ls.q
            /\ out' = MsgFile("Loaded", name)
            /\ count' = [count EXCEPT !.loads = @ + 1]
            /\ hist' = [hist EXCEPT !.max_id =
                          SetMax({@} \cup ls.recorded
                                 \cup {ls.st.cards[i].id :
                                         i \in 1..Len(ls.st.cards)}),
                          !.loaded = Ptrs(ls.st.cards)]
       ELSE /\ out' = MsgFile("fopen: error", name)
            /\ UNCHANGED <<cards, tag_map, next_card_id, queue, count, hist>>
  /\ pushes' = IF out'.msg = "Loaded" THEN PushedAll(cards') ELSE pushes
  /\ inp' = EOF
  /\ UNCHANGED <<pc, c, scanned, initial_size, eof, disk>>


(* ------------------------------ practice ------------------------------- *)
\* a test that lets a card with due_in = 0 wait one more pop
IsDue_negative(due_in) == due_in < 0

\* a test that presents a card one rotation early
IsDue_early(due_in) == due_in <= 1

\* a test that presents the head of the queue whatever its due_in
IsDue_always(due_in) == TRUE

\* the test of "if (card->due_in > 0) ... else { c = card; break; }"
IsDue(due_in) == ~(due_in > 0)

\* a pop that forgets the decrement
ScanDecrement_none(due_in) == due_in

\* a decrement that stops one short of due
ScanDecrement_stuck(due_in) == IF due_in > 1 THEN due_in - 1 ELSE due_in

\* card->due_in -= 1
ScanDecrement(due_in) == due_in - 1

\* the doubling without the clamp
CorrectInterval_noclamp(interval) == Mul2_32(interval)

\* c->interval = c->interval * 2; if (c->interval < 1) c->interval = 1
CorrectInterval(interval) ==
  LET doubled == Mul2_32(interval) IN IF doubled < 1 THEN 1 ELSE doubled

\* a correct answer that makes the card wait one rotation more
CorrectDue_plus1(interval) == interval + 1

\* c->due_in = c->interval, after a correct answer
CorrectDue(interval) == interval

\* c->interval = 1; c->due_in = 1, after an incorrect answer
IncorrectInterval(interval) == 1

\* an incorrect answer that leaves due_in as it is
IncorrectDue_keep(due_in) == due_in

IncorrectDue(due_in) == 1

\* strcmp(cmd, "q") == 0
IsQuit(cmd) == cmd = <<"q">>

\* cmd[0] == 'y' || cmd[0] == 'Y'
IsYes(cmd) == Len(cmd) > 0 /\ cmd[1] \in {"y", "Y"}

\* the top of "while (cont)": scanned = 0, c = NULL, initial_size = q->size
BeginPass(q, cs, fresh) ==
  /\ pc' = "scan"
  /\ scanned' = 0
  /\ c' = NULL
  /\ initial_size' = q.size
  /\ hist' = [hist EXCEPT
                !.pass0 = Snapshot(q, cs),
                !.scan0 = IF fresh THEN Snapshot(q, cs) ELSE @,
                !.decs = IF fresh THEN 0 ELSE @,
                !.passes = IF fresh THEN 1 ELSE @ + 1]

\* menu option 1: practice_loop up to the first pass
StartPractice ==
  /\ AtMenu
  /\ IF queue.size = 0
     THEN /\ out' = Msg("No cards in the queue. Add some first.", 0, << >>)
          /\ UNCHANGED <<pc, scanned, c, initial_size, hist>>
     ELSE /\ out' = Msg("Starting practice.", 0, << >>)
          /\ BeginPass(queue, cards, TRUE)
  /\ inp' = EOF
  /\ UNCHANGED <<cards, tag_map, next_card_id, queue, eof, disk, count,
                 pushes>>

\* the inner loop has ended without a due card: "if (!c) { ... continue; }"
EndPass ==
  IF queue.size = 0
  THEN /\ out' = Msg("Queue empty.", 0, << >>)
       /\ pc' = "menu"
       /\ UNCHANGED <<cards, queue, c, scanned, initial_size, hist>>
  ELSE /\ BeginPass(queue, cards, FALSE)
       /\ out' = Quiet
       /\ UNCHANGED <<cards, queue>>

\* one iteration of "while (scanned < initial_size)", or its exit
ScanStep ==
  /\ pc = "scan"
  /\ IF scanned < initial_size
     THEN LET card == queue_front(queue)
              rest == queue_dequeue(queue)
          IN IF card = NULL
             THEN EndPass
             ELSE IF ~IsDue(Deref(cards, card).due_in)
             THEN /\ cards' = SetSchedule(cards, card,
                                 Deref(cards, card).interval,
                                 ScanDecrement(Deref(cards, card).due_in))
                  /\ queue' = queue_enqueue(rest, card)
                  /\ scanned' = scanned + 1
                  /\ hist' = [hist EXCEPT !.decs = @ + 1]
                  /\ out' = Quiet
                  /\ UNCHANGED <<pc, c, initial_size>>
             ELSE /\ c' = card
                  /\ queue' = rest
                  /\ pc' = "question"
                  /\ out' = Msg("Card #", Deref(cards, card).id, << >>)
                  /\ hist' = [hist EXCEPT !.old =
                                [ptr |-> card,
                                 interval |-> Deref(cards, card).interval,
                                 due_in |-> Deref(cards, card).due_in]]
                  /\ UNCHANGED <<cards, scanned, initial_size>>
     ELSE EndPass
  /\ pushes' = IF scanned < initial_size /\ queue_front(queue) # NULL
               THEN [pushes EXCEPT ![queue_front(queue)].pops = @ + 1]
               ELSE pushes
  /\ inp' = EOF
  /\ UNCHANGED <<tag_map, next_card_id, eof, disk, count>>

\* practice_loop has returned: the scan history is over
EndSession ==
  [hist EXCEPT !.old = [ptr |-> NULL, interval |-> 0, due_in |-> 0],
               !.scan0 = << >>, !.pass0 = << >>, !.decs = 0, !.passes = 0]

\* "if (!fgets(cmd, sizeof(cmd), stdin)) return;" at either prompt
PromptEOF ==
  /\ pc' = "menu"
  /\ eof' = TRUE
  /\ c' = NULL
  /\ inp' = EOF
  /\ out' = Quiet
  /\ hist' = EndSession
  /\ UNCHANGED <<cards, queue, scanned, initial_size, count, pushes>>

\* a cancel that leaves the loop without requeueing the card
PromptQuit_drop(line) ==
  /\ pc' = "menu"
  /\ c' = NULL
  /\ inp' = line
  /\ out' = Msg("Exiting practice.", 0, << >>)
  /\ hist' = EndSession
  /\ UNCHANGED <<cards, queue, eof, scanned, initial_size, count, pushes>>

\* 'q' at either prompt: requeue the card and leave the loop
PromptQuit(line) ==
  /\ queue' = queue_enqueue(queue, c)
  /\ pc' = "menu"
  /\ c' = NULL
  /\ inp' = line
  /\ out' = Msg("Exiting practice.", 0, << >>)
  /\ hist' = EndSession
  /\ pushes' = [pushes EXCEPT ![c] = [d |-> Deref(cards, c).due_in, pops |-> 0]]
  /\ UNCHANGED <<cards, eof, scanned, initial_size, count>>

\* the card is shown; the first fgets of the presentation, which returns one
\* of the given lines
QuestionPromptOn(lines) ==
  /\ pc = "question"
  /\ \E line \in lines :
       IF line = EOF THEN PromptEOF
       ELSE IF IsQuit(trim_newline(line)) THEN PromptQuit(line)
       ELSE /\ pc' = "grade"
            /\ inp' = line
            /\ out' = Msg("Did you answer correctly?", 0, << >>)
            /\ UNCHANGED <<cards, queue, c, eof, scanned, initial_size,
                           hist, count, pushes>>
  /\ UNCHANGED <<tag_map, next_card_id, disk>>

\* the answer is shown; the second fgets, which returns one of the given
\* lines, and the verdict.  counted: the verdict counts towards MaxVerdicts.
GradePromptOn(lines, counted) ==
  /\ pc = "grade"
  /\ \E line \in lines :
       IF line = EOF THEN PromptEOF
       ELSE IF IsQuit(trim_newline(line)) THEN PromptQuit(line)
       ELSE LET card == Deref(cards, c)
                yes == IsYes(trim_newline(line))
                iv == IF yes THEN CorrectInterval(card.interval)
                      ELSE IncorrectInterval(card.interval)
                due == IF yes THEN CorrectDue(iv)
                       ELSE IncorrectDue(card.due_in)
                cs == SetSchedule(cards, c, iv, due)
                q == queue_enqueue(queue, c)
            IN /\ counted => count.verdicts < MaxVerdicts
               /\ iv <= MaxInterval
               /\ cards' = cs
               /\ queue' = q
               /\ inp' = line
               /\ out' = IF yes THEN Msg("Nice! Interval now", iv, << >>)
                         ELSE Msg("Keep practicing", 0, << >>)
               /\ count' = IF counted THEN [count EXCEPT !.verdicts = @ + 1]
                         ELSE count
               /\ BeginPass(q, cs, TRUE)
               /\ pushes' = [pushes EXCEPT ![c] = [d |-> due, pops |-> 0]]
               /\ UNCHANGED eof
  /\ UNCHANGED <<tag_map, next_card_id, disk>>

QuestionPrompt == QuestionPromptOn(QuestionInputs \cup {EOF})

GradePrompt == GradePromptOn(GradeInputs \cup {EOF}, TRUE)

\* the user goes on to the answer
ShowAnswer == QuestionPromptOn({l \in QuestionInputs : ~IsQuit(trim_newline(l))})

\* the user gives a correct or an incorrect verdict
GiveVerdict ==
  GradePromptOn({l \in GradeInputs : ~IsQuit(trim_newline(l))}, FALSE)

(* --------------------------- specification ----------------------------- *)
Next ==
  \/ AddCard
  \/ DeleteCard
  \/ SearchByTag
  \/ SaveToFile
  \/ LoadFromFile
  \/ StartPractice
  \/ ScanStep
  \/ QuestionPrompt
  \/ GradePrompt
  \/ Exit

Spec == Init /\ [][Next]_vars


\* the card store, the tag index, the queue and the file format, without
\* practice sessions
NextStore ==
  \/ AddCard
  \/ DeleteCard
  \/ SearchByTag
  \/ SaveToFile
  \/ LoadFromFile
  \/ Exit

SpecStore == Init /\ [][NextStore]_vars

\* practice sessions over the decks that adding and loading produce
NextPractice ==
  \/ AddCard
  \/ LoadFromFile
  \/ StartPractice
  \/ ScanStep
  \/ QuestionPrompt
  \/ GradePrompt

SpecPractice == Init /\ [][NextPractice]_vars

\* practice sessions in which the user never cancels and input never ends:
\* the program keeps scanning and the user keeps answering
NextSession ==
  \/ ScanStep
  \/ ShowAnswer
  \/ GiveVerdict

NextFair ==
  \/ LoadFromFile
  \/ StartPractice
  \/ NextSession

FairSpec == Init /\ [][NextFair]_vars /\ WF_vars(NextSession)


(* ------------------------------- claims -------------------------------- *)
Range(seq) == {seq[i] : i \in 1..Len(seq)}

Ids(cs) == {cs[i].id : i \in 1..Len(cs)}

\* C1: between menu operations the ids in the card store are the ids in the
\* review queue, every stored card is queued exactly once, and no node of
\* the queue refers to a card that is not in the store; as long as only
\* add-card and delete-card have changed the sample deck, the stored ids
\* are also pairwise distinct, so that cards and ids correspond one to one.
Inv_C1_Bijection ==
  pc = "menu" =>
    /\ \A i \in 1..Len(queue.nodes) : queue.nodes[i] \in Ptrs(cards)
    /\ \A p \in Ptrs(cards) :
         Cardinality({i \in 1..Len(queue.nodes) : queue.nodes[i] = p}) = 1
    /\ {Deref(cards, queue.nodes[i]).id : i \in 1..Len(queue.nodes)} = Ids(cards)
    /\ count.loads = 0 => Cardinality(Ids(cards)) = Len(cards)

\* a card has been added and a card has then been deleted, cards remaining
Wit_C1 ==
  /\ pc = "menu"
  /\ count.adds = 1
  /\ count.loads = 0
  /\ out.msg = "Deleted card"
  /\ Len(cards) >= 1

\* C2: for every query t and every stored card, the search for t lists the
\* card exactly when normalize(t) is one of the card's tags; the search
\* lists no card that is not stored; no tag entry has an empty card list.
Inv_C2_TagIndex ==
  /\ \A line \in Queries :
       LET t == trim_newline(line)
           found == Range(search_by_tag(tag_map, t))
       IN /\ found \subseteq Ptrs(cards)
          /\ \A i \in 1..Len(cards) :
               (cards[i].ptr \in found)
                 <=> (normalize_tag(t) \in Range(cards[i].tags))
  /\ \A tag \in DOMAIN tag_map : tag_map[tag] # << >>


\* the latest step read a verdict at the grading prompt and applied it
JustGraded == pc = "scan" /\ inp # EOF

Verdict == trim_newline(inp)

\* the card the latest presentation showed, as it is now
Shown == Deref(cards, hist.old.ptr)

\* C3: right after a correct verdict the card's interval is twice what it
\* was when the card was popped, and its due_in equals the new interval.
Inv_C3_Doubling ==
  (JustGraded /\ IsYes(Verdict)) =>
    /\ Shown.interval % 2 = 0
    /\ Shown.interval \div 2 = hist.old.interval
    /\ Shown.due_in = Shown.interval

\* C4: right after an incorrect verdict (a line that is neither "q" nor
\* starts with y or Y) the card has interval 1 and due_in 1 and is the last
\* node of the queue.
Inv_C4_Incorrect ==
  (JustGraded /\ ~IsYes(Verdict)) =>
    /\ ~IsQuit(Verdict)
    /\ Shown.interval = 1
    /\ Shown.due_in = 1
    /\ queue.nodes # << >>
    /\ queue.nodes[Len(queue.nodes)] = hist.old.ptr
    /\ Cardinality({i \in 1..Len(queue.nodes) :
                      queue.nodes[i] = hist.old.ptr}) = 1

\* an incorrect verdict on a card whose interval was 2, in a queue of
\* several cards
Wit_C4 ==
  /\ JustGraded
  /\ ~IsYes(Verdict)
  /\ hist.old.interval = 2
  /\ Len(queue.nodes) >= 2
  /\ Shown.interval = 1

\* C5: every card has interval >= 1 and due_in >= 0.
Inv_C5_Ranges ==
  \A i \in 1..Len(cards) : cards[i].interval >= 1 /\ cards[i].due_in >= 0

\* a deck loaded from a file with I=0 and D=-1, and a correct verdict on a
\* card whose interval could not be doubled within an int
Wit_C5 ==
  /\ count.loads = 1
  /\ JustGraded
  /\ IsYes(Verdict)
  /\ hist.old.interval > INT_MAX \div 2
  /\ Shown.interval = 1
  /\ Len(cards) = 2


\* two card lists hold the same cards: same ids, texts, tag sets, intervals
\* and due_in values
SameCard(a, b) ==
  /\ a.id = b.id
  /\ a.question = b.question
  /\ a.answer = b.answer
  /\ Range(a.tags) = Range(b.tags)
  /\ a.interval = b.interval
  /\ a.due_in = b.due_in

SameStore(as, bs) ==
  /\ Len(as) = Len(bs)
  /\ \A i \in 1..Len(as) : \E j \in 1..Len(bs) : SameCard(as[i], bs[j])
  /\ \A j \in 1..Len(bs) : \E i \in 1..Len(as) : SameCard(as[i], bs[j])

\* the latest step loaded the file that the latest save wrote
LoadedSaved ==
  /\ out.msg = "Loaded"
  /\ out.text \in {n \in SaveNames : Writable(n)}
  /\ count.saves > 0

\* C6: loading the file a save wrote gives back the saved store: the same
\* ids, questions, answers, tag sets, intervals and due_in values.
Inv_C6_RoundTrip == LoadedSaved => SameStore(cards, hist.saved)

\* C7: the id counter is above every id a card has been given and above
\* every id recorded in a committed record of a loaded file, so each new
\* card gets an id above all earlier ones.
Inv_C7_FreshIds == next_card_id > hist.max_id

\* the first position of the snapshot whose card had due_in = d
FirstAt(snap, d) ==
  CHOOSE k \in 1..Len(snap) :
    snap[k].due_in = d /\ \A j \in 1..(k - 1) : snap[j].due_in # d

InSession == pc \in {"scan", "question", "grade"}

\* C8: when a card had due_in = 0 at the start of the pass, the pass pops
\* no further than that card: while it scans, fewer pops than the position
\* of the first such card have been made, and the card it presents is that
\* first card, reached with at most as many pops as the queue has cards.
Inv_C8_FirstDue ==
  (InSession /\ \E k \in 1..Len(hist.pass0) : hist.pass0[k].due_in = 0) =>
    LET k == FirstAt(hist.pass0, 0) IN
    IF pc = "scan"
    THEN scanned < k /\ k <= initial_size
    ELSE /\ c = hist.pass0[k].ptr
         /\ scanned + 1 = k
         /\ k <= Len(hist.pass0)

\* a card is presented that had two cards which were not yet due before it
Wit_C8 ==
  /\ pc = "question"
  /\ Len(hist.pass0) = 3
  /\ hist.pass0[1].due_in > 0
  /\ hist.pass0[2].due_in > 0
  /\ c = hist.pass0[3].ptr

MinDue(snap) == -SetMax({-snap[k].due_in : k \in 1..Len(snap)})

\* C10 as stated: from the start of scanning until a card is presented, at
\* most as many decrements are performed as the queue has cards.
Inv_C10_AtMostSize == InSession => hist.decs <= Len(hist.scan0)

\* C10 as amended: with n cards queued and m the smallest due_in at the
\* start of scanning, at most n * m + (n - 1) decrements are performed
\* before a card is presented; the card presented is the first in queue
\* order that had due_in = m, after exactly n * m + (its position - 1)
\* decrements.
Inv_C10_Rotations ==
  InSession =>
    LET n == Len(hist.scan0)
        m == MinDue(hist.scan0)
        k == FirstAt(hist.scan0, m)
    IN IF pc = "scan"
       THEN hist.decs <= n * m + (k - 1)
       ELSE /\ c = hist.scan0[k].ptr
            /\ hist.decs = n * m + (k - 1)
            /\ hist.decs <= n * m + (n - 1)

\* a card is presented after more decrements than the queue has cards
Wit_C10 ==
  /\ pc = "question"
  /\ hist.decs > Len(hist.scan0)


\* C9: in a session without cancel, every card of the deck is eventually
\* presented.
Live_C9_NoStarvation ==
  \A p \in 1..MaxCards :
    (InSession /\ p \in Ptrs(cards)) ~> (pc = "question" /\ c = p)

\* a card that was not due when scanning started is presented
Wit_C9 ==
  /\ pc = "question"
  /\ \E k \in 1..Len(hist.scan0) :
       hist.scan0[k].ptr = c /\ hist.scan0[k].due_in > 0

\* the step reads "q" at the question prompt or at the grading prompt
CancelStep ==
  /\ pc \in {"question", "grade"}
  /\ inp' # EOF
  /\ IsQuit(trim_newline(inp'))

\* C11: a step that reads "q" at either prompt leaves the presented card's
\* interval and due_in as they were when it was popped (and every other
\* card untouched), appends the card to the back of the queue, and ends the
\* session: control is at the menu and no card is being presented.
Act_C11_Cancel ==
  [][CancelStep =>
       /\ Deref(cards', c).interval = hist.old.interval
       /\ Deref(cards', c).due_in = hist.old.due_in
       /\ cards' = cards
       /\ queue'.nodes = queue.nodes \o <<c>>
       /\ queue'.size = queue.size + 1
       /\ pc' = "menu"
       /\ c' = NULL
       /\ out'.msg = "Exiting practice."]_vars

\* a session was cancelled on a card that an earlier correct answer had
\* given interval 2; the card is the last of several queued cards
Wit_C11 ==
  /\ pc = "menu"
  /\ out.msg = "Exiting practice."
  /\ IsQuit(trim_newline(inp))
  /\ Len(queue.nodes) >= 2
  /\ Deref(cards, queue.nodes[Len(queue.nodes)]).interval = 2
  /\ Deref(cards, queue.nodes[Len(queue.nodes)]).due_in = 0


\* the step is add_card_interactive creating a card
AddedStep == pc = "menu" /\ out'.msg = "Added card ID"

\* the step is add_card_interactive refusing the question
RefusedStep == pc = "menu" /\ out'.msg = "Empty question - cancelled."

\* C12: add-card creates a card only for a question that is not empty after
\* trimming whitespace, and a refused creation leaves the card store, the
\* tag index, the queue and the id counter as they were.
Act_C12_EmptyQuestion ==
  [][/\ AddedStep => Len(trim_whitespace(cards'[1].question)) > 0
     /\ RefusedStep => UNCHANGED <<cards, tag_map, next_card_id, queue>>]_vars


\* the step is remove_card_interactive reporting that no card has the id
NotFoundStep == pc = "menu" /\ out'.msg = "No card with ID"

\* the step is remove_card_interactive deleting a card
DeletedStep == pc = "menu" /\ out'.msg = "Deleted card"

\* C13: a delete step removes a card only when a stored card has the id that
\* was entered; when no stored card has it the step reports not-found and
\* leaves the card store, the tag index, the queue (contents, order and
\* size) and the id counter as they were.
Act_C13_NotFound ==
  [][/\ DeletedStep => out'.id \in Ids(cards)
     /\ NotFoundStep =>
          /\ out'.id \notin Ids(cards)
          /\ UNCHANGED <<cards, tag_map, next_card_id, queue>>]_vars

\* not-found was reported for a line that is no number, with cards stored
\* after an earlier deletion
Wit_C13 ==
  /\ out.msg = "No card with ID"
  /\ out.id = 0
  /\ Len(cards) = 2
  /\ queue.size = 2


\* the records of a file: each runs up to and including its "---" line; the
\* lines after the last "---", if any, form the last record
RECURSIVE SplitRecords(_, _, _)
SplitRecords(file, i, cur) ==
  IF i > Len(file) THEN (IF cur = << >> THEN << >> ELSE <<cur>>)
  ELSE IF trim_newline(file[i]) = <<"-","-","-">>
       THEN <<Append(cur, file[i])>> \o SplitRecords(file, i + 1, << >>)
       ELSE SplitRecords(file, i + 1, Append(cur, file[i]))

HasField(rec, prefix) ==
  \E i \in 1..Len(rec) : HasPrefix(trim_newline(rec[i]), prefix)

\* the text of the record's last line with the prefix
LastField(rec, prefix) ==
  LET i == CHOOSE i \in 1..Len(rec) :
             /\ HasPrefix(trim_newline(rec[i]), prefix)
             /\ \A j \in (i + 1)..Len(rec) :
                  ~HasPrefix(trim_newline(rec[j]), prefix)
  IN Skip(trim_newline(rec[i]), Len(prefix))

\* a record with a question line and an answer line
ValidRecord(rec) == HasField(rec, <<"Q","=">>) /\ HasField(rec, <<"A","=">>)

RECURSIVE Concat(_)
Concat(seqs) == IF seqs = << >> THEN << >> ELSE Head(seqs) \o Concat(Tail(seqs))

ValidRecords(file) == SelectSeq(SplitRecords(file, 1, << >>), ValidRecord)

\* the step is load_cards_from_file reading a file through
LoadedStep == pc = "menu" /\ out'.msg = "Loaded"

\* C14: a load gives exactly what the same load gives on the file without
\* its malformed records (records lacking a Q= or an A= line), which is the
\* concatenation of its valid records: the same
\* card store, tag index, queue and id counter.  It holds one card per valid
\* record, in file order in the queue, each with the question and answer of
\* its own record.
Act_C14_SkipMalformed ==
  [][LoadedStep =>
       \A valid \in {ValidRecords(disk[out'.text])} :
         \A ref \in {load_cards_from_file(store, queue, Concat(valid))} :
           /\ cards' = ref.st.cards
           /\ tag_map' = ref.st.tag_map
           /\ next_card_id' = ref.st.next_card_id
           /\ queue' = ref.q
           /\ Len(cards') = Len(valid)
           /\ queue'.size = Len(valid)
           /\ \A k \in 1..Len(valid) :
                LET card == Deref(cards', queue'.nodes[k]) IN
                /\ card.question = LastField(valid[k], <<"Q","=">>)
                /\ card.answer = LastField(valid[k], <<"A","=">>)]_vars

\* a file with a malformed record between two valid ones has been loaded
Wit_C14 ==
  /\ out.msg = "Loaded"
  /\ LET recs == SplitRecords(disk[out.text], 1, << >>) IN
     \E k \in 2..(Len(recs) - 1) :
       /\ ~ValidRecord(recs[k])
       /\ ValidRecord(recs[k - 1])
       /\ ValidRecord(recs[k + 1])
  /\ Len(cards) = 2


\* the cards that the step takes out of the store
Removed == Ptrs(cards) \ Ptrs(cards')

\* C15: a delete step takes exactly one card, a card with the id entered,
\* out of the store and out of the queue; the other cards stay in the queue
\* in the order they had, with all their fields as they were, and the
\* queue's size field is the number of cards left.
Act_C15_DeleteKeepsOrder ==
  [][DeletedStep =>
       /\ Ptrs(cards') \subseteq Ptrs(cards)
       /\ Cardinality(Removed) = 1
       /\ \A p \in Removed : Deref(cards, p).id = out'.id
       /\ queue'.nodes = SelectSeq(queue.nodes, LAMBDA x : x \notin Removed)
       /\ \A p \in Ptrs(cards') : Deref(cards', p) = Deref(cards, p)
       /\ queue'.size = Len(queue'.nodes)
       /\ queue'.size = Len(cards')]_vars

\* the middle card of a queue of three has been deleted
Wit_C15 ==
  /\ out.msg = "Deleted card"
  /\ out.id = 2
  /\ count.loads = 0
  /\ queue.nodes = <<3, 1>>


\* the step is practice_loop returning to the menu from a session
ReturnStep == pc \in {"scan", "question", "grade"} /\ pc' = "menu"

\* every stored card is in the queue exactly once, and nothing else is
QueueHoldsDeck(q, cs) ==
  /\ Range(q.nodes) = Ptrs(cs)
  /\ Len(q.nodes) = Len(cs)
  /\ q.size = Len(cs)

\* C16: whenever practice_loop returns - by cancel or because input ended,
\* at either prompt - the queue holds every card of the deck exactly once,
\* the card that was being presented included.
Act_C16_SessionConserves ==
  [][ReturnStep => QueueHoldsDeck(queue', cards') /\ Ptrs(cards') = Ptrs(cards)]_vars


\* no card was due when the current pass began
NoneDueAtPass == \A k \in 1..Len(hist.pass0) : hist.pass0[k].due_in # 0

\* the inner loop of the current pass has made all its pops
PassDone == pc = "scan" /\ scanned = initial_size

\* C17: a pass pops at most initial_size cards, the queue size at its
\* start (scanned pops of cards not yet due, plus the pop of the card it
\* presents).  When no card was due at the start of the pass, no card is
\* presented in it, and once its pops are made the queue is in the order
\* it had at the start and every card's due_in is one less than it was.
Inv_C17_Pass ==
  InSession =>
    /\ initial_size = Len(hist.pass0)
    /\ IF pc = "scan" THEN scanned <= initial_size
       ELSE scanned + 1 <= initial_size
    /\ NoneDueAtPass =>
         /\ pc = "scan"
         /\ PassDone =>
              /\ queue.nodes = [k \in 1..Len(hist.pass0) |-> hist.pass0[k].ptr]
              /\ \A k \in 1..Len(hist.pass0) :
                   Deref(cards, hist.pass0[k].ptr).due_in
                     = hist.pass0[k].due_in - 1

\* a pass over two cards, neither of them due, has made its pops
Wit_C17 ==
  /\ PassDone
  /\ NoneDueAtPass
  /\ initial_size = 2
  /\ hist.pass0[1].due_in = 2


\* C18: the passes made since scanning started number at most the smallest
\* due_in the queue held then, plus one; and scanning always leads to the
\* presentation of a card.
Live_C18_ScanTerminates ==
  /\ [](InSession => hist.passes <= MinDue(hist.scan0) + 1)
  /\ (pc = "scan") ~> (pc = "question")

\* the only card of the queue, not due for two rotations when scanning
\* started, is presented in the third pass
Wit_C18 ==
  /\ pc = "question"
  /\ Len(hist.scan0) = 1
  /\ hist.scan0[1].due_in = 2
  /\ hist.passes = 3


Presented(p) == pc \in {"question", "grade"} /\ c = p

\* C19: a card that was pushed to the back of the queue with due_in = d has
\* since been popped at most d times while it waits in the queue, and its
\* due_in is d less the number of those pops; the card being presented has
\* been popped d + 1 times, and its due_in was 0 when that pop took it.
Inv_C19_Pops ==
  \A p \in Ptrs(cards) :
    IF Presented(p)
    THEN /\ pushes[p].pops = pushes[p].d + 1
         /\ hist.old.ptr = p
         /\ hist.old.due_in = 0
         /\ Deref(cards, p).due_in = 0
    ELSE p \in Range(queue.nodes) =>
           /\ pushes[p].pops <= pushes[p].d
           /\ Deref(cards, p).due_in = pushes[p].d - pushes[p].pops

\* a card that a correct answer pushed back with due_in 2 is presented on
\* its third pop
Wit_C19 ==
  /\ pc = "question"
  /\ pushes[c].d = 2
  /\ pushes[c].pops = 3
  /\ Deref(cards, c).interval = 2


\* the step belongs to practice_loop: its entry from the menu, or any step
\* made while the session runs
PracticeStep ==
  \/ pc \in {"scan", "question", "grade"}
  \/ pc = "menu" /\ pc' = "scan"
  \/ pc = "menu" /\ out'.msg = "No cards in the queue. Add some first."

\* C20: a step of practice_loop leaves the tag index and the id counter as
\* they are and keeps the card list card for card: the same cards in the
\* same places, each with its id, question, answer and tags.
Act_C20_PracticeFrame ==
  [][PracticeStep =>
       /\ tag_map' = tag_map
       /\ next_card_id' = next_card_id
       /\ Len(cards') = Len(cards)
       /\ \A i \in 1..Len(cards) :
            /\ cards'[i].ptr = cards[i].ptr
            /\ cards'[i].id = cards[i].id
            /\ cards'[i].question = cards[i].question
            /\ cards'[i].answer = cards[i].answer
            /\ cards'[i].tags = cards[i].tags]_vars

\* a session has doubled the interval of a tagged card of the sample deck
Wit_C20 ==
  /\ JustGraded
  /\ IsYes(Verdict)
  /\ count.loads = 0
  /\ count.adds = 0
  /\ Shown.interval = 2
  /\ Shown.tags # << >>
  /\ count.verdicts = 1


\* the step is load_cards_from_file failing to open the file
LoadFailedStep ==
  pc = "menu" /\ out'.msg = "fopen: error" /\ out'.text \in LoadNames

\* the number recorded by the record's last line with the prefix, or the
\* value the loader starts a record with
NumberField(rec, prefix, default) ==
  IF HasField(rec, prefix) THEN atoi(LastField(rec, prefix)) ELSE default

\* the tags recorded by the record's last T= line
TagsField(rec) ==
  IF HasField(rec, <<"T","=">>) THEN parse_tags(LastField(rec, <<"T","=">>))
  ELSE << >>

\* how many times x occurs in seq
Occurrences(seq, x) == Cardinality({i \in 1..Len(seq) : seq[i] = x})

\* the tag index lists exactly the cards of the list, each under exactly
\* its tags, as often as the card names the tag
IndexOf(tm, cs) ==
  /\ DOMAIN tm = UNION {Range(cs[i].tags) : i \in 1..Len(cs)}
  /\ \A tag \in DOMAIN tm :
       /\ Range(tm[tag]) \subseteq Ptrs(cs)
       /\ \A i \in 1..Len(cs) :
            Occurrences(tm[tag], cs[i].ptr) = Occurrences(cs[i].tags, tag)

\* C21: a load that cannot open its file leaves the card store, the tag
\* index, the queue and the id counter as they were.  A load that opens its
\* file leaves no earlier card behind: the store holds one card per valid
\* record of the file and nothing else, the queue holds these cards once
\* each in the order of their records, each card carries the question,
\* answer, tags, interval and due_in of its own record, and the tag index
\* lists exactly these cards under exactly their tags.
Act_C21_LoadAllOrNothing ==
  [][/\ LoadFailedStep =>
          UNCHANGED <<cards, tag_map, next_card_id, queue>>
     /\ LoadedStep =>
          \A valid \in {ValidRecords(disk[out'.text])} :
            /\ Len(cards') = Len(valid)
            /\ Len(queue'.nodes) = Len(valid)
            /\ queue'.size = Len(valid)
            /\ Range(queue'.nodes) = Ptrs(cards')
            /\ Cardinality(Ptrs(cards')) = Len(valid)
            /\ IndexOf(tag_map', cards')
            /\ \A k \in 1..Len(valid) :
                 \A card \in {Deref(cards', queue'.nodes[k])} :
                   /\ card.question = LastField(valid[k], <<"Q","=">>)
                   /\ card.answer = LastField(valid[k], <<"A","=">>)
                   /\ card.tags = TagsField(valid[k])
                   /\ \A iv \in {NumberField(valid[k], <<"I","=">>, 1)} :
                        card.interval = IF iv > 0 THEN iv ELSE 1
                   /\ \A due \in {NumberField(valid[k], <<"D","=">>, 0)} :
                        card.due_in = IF due >= 0 THEN due ELSE 0]_vars

\* the two-record file has replaced a deck of three cards and its four tags
Wit_C21 ==
  /\ out.msg = "Loaded"
  /\ out.text = "b.txt"
  /\ count.adds = 0
  /\ queue.size = 2
  /\ DOMAIN tag_map = {<<"x">>}


\* the card's interval and due_in come from creation, scan decrements and
\* verdicts only: the loader has not set them
NeverLoaded(card) == card.ptr \notin hist.loaded

\* C22: every card whose interval and due_in were never set by the loader
\* has due_in <= interval.
Inv_C22_DueWithinInterval ==
  \A i \in 1..Len(cards) :
    NeverLoaded(cards[i]) => cards[i].due_in <= cards[i].interval

\* next to a loaded card, a card added after the load waits its full
\* interval of 2 after a correct answer
Wit_C22 ==
  /\ count.loads = 1
  /\ \E i \in 1..Len(cards) : ~NeverLoaded(cards[i])
  /\ \E i \in 1..Len(cards) :
       /\ NeverLoaded(cards[i])
       /\ cards[i].interval = 2
       /\ cards[i].due_in = 2

====
